---- MODULE Spec2Model ----
(***************************************************************************)
(* Model of homework.py: a bot that polls the homework-review API, turns   *)
(* the newest record into a verdict sentence and forwards it to one chat.  *)
(*                                                                         *)
(* Python values are records [t, i, s, items] tagged with their type so    *)
(* that isinstance() can be modelled; a dict is the sequence of its        *)
(* entries.  A call result is Return(v) or Raise(type, str), str being     *)
(* str(error) as main() interpolates it.  The fixed Russian texts of the   *)
(* source are rendered in ASCII English, one text per source literal.      *)
(***************************************************************************)
EXTENDS Naturals, Sequences, FiniteSets, TLC

VARIABLES
    PRACTICUM_TOKEN,   \* module constants read from the environment (15-17)
    TELEGRAM_TOKEN,
    TELEGRAM_CHAT_ID,
    pc,                \* position in main(): "main", "try", "except",
                       \* "finally", "exited"
    last_status,       \* main() local, line 114
    timestamp,         \* main() local, line 116
    error,             \* the exception bound by `except Exception as error`
    propagating,       \* an exception is leaving main() through `finally`
    cyc,               \* history: what the current cycle did
    prev,              \* history: summary of the cycle before it
    slept,             \* history: seconds slept since get_api_answer was called
    hist,              \* history: deliveries over the whole run
    probe,             \* a function of homework.py called on its own: the
                       \* function, its arguments and how the call ended
    stuck              \* the answer of an API that gives the same answer to
                       \* every request

vars == <<PRACTICUM_TOKEN, TELEGRAM_TOKEN, TELEGRAM_CHAT_ID, pc, last_status,
          timestamp, error, propagating, cyc, prev, slept, hist, probe, stuck>>

----------------------------------------------------------------------------
(* Bounds of the model *)

\* current_date values a response may carry are 0..MaxDate
MaxDate == 1

\* longest homeworks list a response may carry
MaxHomeworks == 2

----------------------------------------------------------------------------
(* Program constants *)

RETRY_PERIOD == 600

ENDPOINT == "https://practicum.yandex.ru/api/user_api/homework_statuses/"

HTTP_OK == 200

\* os.getenv() of an unset variable
None == "<None>"

\* str() of a value interpolated by an f-string or str.format
PyStr(v) == IF v = None THEN "None" ELSE v

\* a formatted text is the concatenation of its literal pieces and of the
\* values interpolated into it
RECURSIVE Concat(_)
Concat(parts) ==
    IF parts = <<>> THEN "" ELSE Head(parts) \o Concat(Tail(parts))

\* str(HEADERS): the literal pieces and the token between them
HeaderParts == <<"{'Authorization': 'OAuth ", PyStr(PRACTICUM_TOKEN), "'}">>

HEADERS == Concat(HeaderParts)

\* the texts of two verdicts exchanged
HOMEWORK_VERDICTS_Exchanged ==
    [approved  |-> "Work checked: the reviewer has remarks.",
     reviewing |-> "Work was taken for review by the reviewer.",
     rejected  |-> "Work checked: the reviewer liked everything. Hooray!"]

HOMEWORK_VERDICTS ==
    [approved  |-> "Work checked: the reviewer liked everything. Hooray!",
     reviewing |-> "Work was taken for review by the reviewer.",
     rejected  |-> "Work checked: the reviewer has remarks."]

----------------------------------------------------------------------------
(* Python values and call results *)

JInt(n)  == [t |-> "int",  i |-> n, s |-> "", items |-> <<>>]
JStr(x)  == [t |-> "str",  i |-> 0, s |-> x, items |-> <<>>]
JList(l) == [t |-> "list", i |-> 0, s |-> "", items |-> l]

\* a dict is built from its entries, key and value, in insertion order
Entry(k, v) == [t |-> "entry", i |-> 0, s |-> k, items |-> <<v>>]
JDict(es)   == [t |-> "dict", i |-> 0, s |-> "", items |-> es]

\* key in d
Has(d, k) == \E j \in 1..Len(d.items) : d.items[j].s = k

\* d[key]
Get(d, k) == d.items[CHOOSE j \in 1..Len(d.items) : d.items[j].s = k].items[1]

NoValue == [t |-> "none", i |-> 0, s |-> "", items |-> <<>>]
NoError == [type |-> "", str |-> ""]

Return(v)    == [raised |-> FALSE, val |-> v, exc |-> NoError]
Raise(ty, s) == [raised |-> TRUE, val |-> NoValue, exc |-> [type |-> ty, str |-> s]]

\* repr() of a str without a single quote; str(KeyError(s)) is repr(s)
ReprSq(s) == "'" \o s \o "'"

\* repr() of a str holding a single quote and no double quote
ReprDq(s) == "\"" \o s \o "\""

----------------------------------------------------------------------------
(* Inputs: the environment, the review API and the delivery channel *)

EnvValues == {None, "", "secret"}

StartTimes == {0}

Dates == 0..MaxDate

Names == {"X", "Y"}

StatusCodes == {"approved", "reviewing", "rejected", "unknown"}

\* the newest record: any subset of the two fields may be missing
NewestRecords ==
    {JDict(<<Entry("homework_name", JStr(n)), Entry("status", JStr(c))>>) :
        n \in Names, c \in StatusCodes}
    \cup {JDict(<<Entry("homework_name", JStr("X"))>>),
          JDict(<<Entry("status", JStr("approved"))>>),
          JDict(<<>>)}

\* older records of the list
OlderRecords ==
    {JDict(<<Entry("homework_name", JStr("Y")), Entry("status", JStr("rejected"))>>)}

RECURSIVE OlderLists(_)
OlderLists(n) ==
    IF n = 0 THEN {<<>>}
    ELSE LET shorter == OlderLists(n - 1)
         IN  shorter \cup {Append(l, r) : l \in shorter, r \in OlderRecords}

\* lists of at most MaxHomeworks records, the newest first
ListsOf(newest) ==
    {<<>>} \cup
    (IF MaxHomeworks = 0 THEN {}
     ELSE {<<r>> \o l : r \in newest, l \in OlderLists(MaxHomeworks - 1)})

\* the "homeworks" value of a response: a list of records, a list of
\* something else, or something that is no list
HomeworksValues ==
    {JList(l) : l \in ListsOf(NewestRecords)}
    \cup {JList(<<JInt(7)>>), JStr("none")}

\* bodies with a homeworks value, with and without current_date
BodiesOf(values) ==
    {JDict(<<Entry("homeworks", h)>>) : h \in values}
    \cup {JDict(<<Entry("homeworks", h), Entry("current_date", JInt(d))>>) :
             h \in values, d \in Dates}

\* decoded JSON bodies
Bodies ==
    {JList(<<>>)}
    \cup {JDict(<<>>)}
    \cup {JDict(<<Entry("current_date", JInt(d))>>) : d \in Dates}
    \cup BodiesOf(HomeworksValues)

\* what requests.get() does: the call fails, or a response comes back whose
\* body may or may not decode as JSON
NetResultsOf(bodies) ==
    {[kind |-> "transport", code |-> 0, reason |-> "", json |-> FALSE, body |-> NoValue]}
    \cup {[kind |-> "response", code |-> 500, reason |-> "Server Error",
           json |-> FALSE, body |-> NoValue]}
    \cup {[kind |-> "response", code |-> HTTP_OK, reason |-> "OK",
           json |-> FALSE, body |-> NoValue]}
    \cup {[kind |-> "response", code |-> HTTP_OK, reason |-> "OK",
           json |-> TRUE, body |-> b] : b \in bodies}

NetResults == NetResultsOf(Bodies)

\* the newest records the polling loop is run against: three verdicts over
\* two works, an unknown status and a record without a status
LoopRecords ==
    {JDict(<<Entry("homework_name", JStr("X")), Entry("status", JStr(c))>>) :
        c \in {"approved", "rejected", "unknown"}}
    \cup {JDict(<<Entry("homework_name", JStr("Y")), Entry("status", JStr("approved"))>>),
          JDict(<<Entry("homework_name", JStr("X"))>>)}

\* the newest records of the runs that keep the history of undelivered
\* messages
RetryRecords ==
    {JDict(<<Entry("homework_name", JStr("X")), Entry("status", JStr(c))>>) :
        c \in {"approved", "rejected"}}

RetryNetResults ==
    NetResultsOf(BodiesOf({JList(l) : l \in ListsOf(RetryRecords)}))

\* the API as the polling loop sees it
LoopNetResults ==
    NetResultsOf({JList(<<>>)} \cup BodiesOf({JList(l) : l \in ListsOf(LoopRecords)}))

\* what bot.send_message() does: it returns, raises ApiException, or raises
\* an exception of the transport underneath it, which is no ApiException
Deliveries == {"delivered", "ApiException", "RequestException"}

----------------------------------------------------------------------------
(* The functions of homework.py *)

\* a check for None instead of `not token`
MissingTokensUnsetOnly ==
    {n \in {"PRACTICUM_TOKEN", "TELEGRAM_TOKEN", "TELEGRAM_CHAT_ID"} :
        LET token == CASE n = "PRACTICUM_TOKEN" -> PRACTICUM_TOKEN
                       [] n = "TELEGRAM_TOKEN" -> TELEGRAM_TOKEN
                       [] OTHER -> TELEGRAM_CHAT_ID
        IN  token = None}

\* check_tokens(): the names of the variables that are unset or empty
MissingTokens ==
    {n \in {"PRACTICUM_TOKEN", "TELEGRAM_TOKEN", "TELEGRAM_CHAT_ID"} :
        LET token == CASE n = "PRACTICUM_TOKEN" -> PRACTICUM_TOKEN
                       [] n = "TELEGRAM_TOKEN" -> TELEGRAM_TOKEN
                       [] OTHER -> TELEGRAM_CHAT_ID
        IN  token = None \/ token = ""}

check_tokens ==
    IF MissingTokens /= {}
    THEN Raise("AssertionError", "Missing environment variable(s)")
    ELSE Return(NoValue)

\* send_message(bot, message): only ApiException is caught
send_message(message, delivery) ==
    CASE delivery = "delivered" -> Return(TRUE)
      [] delivery = "ApiException" -> Return(FALSE)
      [] OTHER -> Raise("RequestException", "Connection aborted.")

\* '{url} ...: {headers} and {params}'.format(**api_params), in pieces
ApiParamsParts(ts) ==
    <<ENDPOINT, " with parameters: ">> \o HeaderParts
        \o <<" and {'from_date': ", ToString(ts), "}">>

ApiParamsText(ts) == Concat(ApiParamsParts(ts))

\* the line logging.info() writes before the request, in pieces
RequestLogParts(ts) == <<"Request to endpoint ">> \o ApiParamsParts(ts)

RequestLog(ts) == Concat(RequestLogParts(ts))

\* get_api_answer(timestamp), given what requests.get() does.  On a status
\* other than 200 the text of InvalidResponseCode is built with
\* '{response} - ...'.format(response.reason, **api_params): the field
\* {response} has no keyword argument, so str.format raises KeyError.
get_api_answer(ts, net) ==
    IF net.kind = "transport"
    THEN Raise("ConnectionError", "Error requesting endpoint " \o ApiParamsText(ts))
    ELSE IF net.code /= HTTP_OK
    THEN Raise("KeyError", ReprSq("response"))
    ELSE IF ~net.json
    THEN Raise("JSONDecodeError", "Expecting value: line 1 column 1 (char 0)")
    ELSE Return(net.body)

\* `if not list_home_works` in place of the isinstance test
check_responseTruthy(response) ==
    IF response.t /= "dict"
    THEN Raise("TypeError", "API response is not a dict")
    ELSE IF ~Has(response, "homeworks")
    THEN Raise("KeyError", ReprSq("Missing key \"homeworks\""))
    ELSE LET list_home_works == Get(response, "homeworks")
         IN  IF list_home_works.items = <<>>
             THEN Raise("TypeError", "No homework list in the API response")
             ELSE Return(list_home_works)

check_response(response) ==
    IF response.t /= "dict"
    THEN Raise("TypeError", "API response is not a dict")
    ELSE IF ~Has(response, "homeworks")
    THEN Raise("KeyError", ReprSq("Missing key \"homeworks\""))
    ELSE LET list_home_works == Get(response, "homeworks")
         IN  IF list_home_works.t /= "list"
             THEN Raise("TypeError", "No homework list in the API response")
             ELSE Return(list_home_works)

\* str(error) of the exceptions module's classes, which subclass Exception
\* and keep its __str__
HomeworkVerdictNotFound(message) == Raise("HomeworkVerdictNotFound", message)

\* the name of the work left out of the sentence
VerdictTextNoName(homework_name, verdict) ==
    "Homework check status changed. " \o verdict

VerdictText(homework_name, verdict) ==
    "Homework check status changed \"" \o homework_name \o "\". " \o verdict

parse_status(homework) ==
    IF ~Has(homework, "homework_name")
    THEN Raise("KeyError", ReprDq("API response has no value 'homework_name'"))
    ELSE IF ~Has(homework, "status")
    THEN Raise("KeyError", ReprDq("API response has no value 'status'"))
    ELSE LET homework_name == Get(homework, "homework_name").s
             status == Get(homework, "status").s
         IN  IF status \notin DOMAIN HOMEWORK_VERDICTS
             THEN HomeworkVerdictNotFound("Invalid homework status " \o status)
             ELSE Return(VerdictText(homework_name, HOMEWORK_VERDICTS[status]))

\* f'... {error}' of the except block
FailureText(exc) == "Program failure: " \o exc.str

\* the cursor never advanced
NextTimestampKept(response, ts) == ts

\* response.get('current_date', timestamp)
NextTimestamp(response, ts) ==
    IF Has(response, "current_date")
    THEN Get(response, "current_date").i
    ELSE ts

----------------------------------------------------------------------------
(* History *)

\* fetches: calls of get_api_answer; from_date: the cursor passed to it;
\* fetch: how the call ended; validated: check_response returned; has_date,
\* date: current_date of the response; empty: the list was empty; interp:
\* what parse_status returned; start_status: last_status as the cycle began;
\* calls: the calls of send_message; redelivered: a verdict was delivered
\* that had been delivered before with no other verdict seen since;
\* diagnostic: the message the except block built; start_watched:
\* hist.watched as the cycle began; first: no cycle ran before; log: the
\* pieces of the line get_api_answer logged; record: homeworks[0]
NoCycle ==
    [fetches |-> 0, from_date |-> 0, fetch |-> "", validated |-> FALSE,
     has_date |-> FALSE, date |-> 0, empty |-> FALSE, interp |-> "",
     start_status |-> "", calls |-> <<>>, redelivered |-> FALSE,
     diagnostic |-> "", start_watched |-> "", first |-> FALSE, log |-> <<>>,
     record |-> NoValue]

\* confirmed: the last message send_message returned true for; fresh: the
\* verdict delivered last, until a cycle interprets another one; watched: a
\* message send_message returned false for and has not returned true for
\* since (any one of them)
NoHistory == [confirmed |-> "", fresh |-> "", watched |-> ""]

Call(message, result) == [text |-> message, result |-> result]

\* how a call of send_message ended
ResultOf(sent) ==
    IF sent.raised THEN "raised" ELSE IF sent.val THEN "true" ELSE "false"

\* hist after send_message(message) ended as `sent`; watch: whether a
\* message that was not delivered is the one to watch from now on
Sent(h, message, sent, watch) ==
    CASE ResultOf(sent) = "true" ->
            [h EXCEPT !.confirmed = message,
                      !.watched = IF @ = message THEN "" ELSE @]
      [] ResultOf(sent) = "false" ->
            [h EXCEPT !.watched = IF watch THEN message ELSE @]
      [] OTHER -> h

FetchKind(net) ==
    CASE net.kind = "transport" -> "transport"
      [] net.code /= HTTP_OK -> "bad_status"
      [] ~net.json -> "bad_json"
      [] OTHER -> "ok"

\* what is kept of a cycle once it is over
Summary(c) ==
    [cycles |-> c.fetches, first |-> c.first, interp |-> c.interp,
     empty |-> c.empty, diagnostic |-> c.diagnostic, record |-> c.record,
     sends |-> Len(c.calls),
     unconfirmed |-> \E i \in 1..Len(c.calls) : c.calls[i].result /= "true"]

\* no function called on its own so far
NoProbe ==
    [fn |-> "", ts |-> 0, net |-> CHOOSE n \in NetResults : n.kind = "transport",
     arg |-> NoValue, out |-> Return(NoValue)]

----------------------------------------------------------------------------
(* main() *)

InitMain ==
    /\ PRACTICUM_TOKEN \in EnvValues
    /\ TELEGRAM_TOKEN \in EnvValues
    /\ TELEGRAM_CHAT_ID \in EnvValues
    /\ pc = "main"
    /\ last_status = ""
    /\ timestamp = 0
    /\ error = NoError
    /\ propagating = FALSE
    /\ cyc = NoCycle
    /\ prev = Summary(NoCycle)
    /\ slept = 0
    /\ hist = NoHistory
    /\ probe = NoProbe

Init ==
    /\ InitMain
    /\ stuck = NoProbe.net

\* lines 113-116: check_tokens(), then the locals of the loop
Startup ==
    /\ pc = "main"
    /\ IF check_tokens.raised
       THEN /\ pc' = "exited"
            /\ error' = check_tokens.exc
            /\ propagating' = TRUE
            /\ UNCHANGED <<last_status, timestamp>>
       ELSE /\ pc' = "try"
            /\ last_status' = ""
            /\ timestamp' \in StartTimes
            /\ UNCHANGED <<error, propagating>>
    /\ UNCHANGED <<probe, stuck, PRACTICUM_TOKEN, TELEGRAM_TOKEN, TELEGRAM_CHAT_ID, cyc, prev,
                   slept, hist>>

\* the comparison with last_status left out
StatusChangedAlways(status_home_work, last) == TRUE

\* line 125, left operand
StatusChanged(status_home_work, last) == status_home_work /= last

\* the comparison with last_status left out
FailureChangedAlways(last, message) == TRUE

\* last_status tested for being set instead of compared with the message
FailureChangedIfSet(last, message) == last /= ""

\* line 132, left operand
FailureChanged(last, message) == last /= message

\* the result of send_message ignored
ConfirmedAlways(sent) == TRUE

\* the result of send_message inverted
ConfirmedInverted(sent) == ~sent.val

\* lines 126 and 132, right operand: what send_message returned
Confirmed(sent) == sent.val

\* the cycle's record as get_api_answer is called (line 119)
Fetched(net) ==
    [NoCycle EXCEPT !.fetches = 1, !.from_date = timestamp,
                    !.fetch = FetchKind(net),
                    !.start_status = last_status,
                    !.start_watched = hist.watched,
                    !.first = (prev.cycles = 0),
                    !.log = RequestLogParts(timestamp)]

\* lines 119-120 raise: control goes to the except block
TryFetchFails(net) ==
    LET response == get_api_answer(timestamp, net)
        homeworks == check_response(response.val)
        failure == IF response.raised THEN response.exc ELSE homeworks.exc
    IN  /\ response.raised \/ homeworks.raised
        /\ pc' = "except"
        /\ error' = failure
        /\ cyc' = Fetched(net)
        /\ UNCHANGED <<last_status, timestamp, hist>>

\* the cycle's record once check_response has returned (line 120)
Validated(net, response) ==
    [Fetched(net) EXCEPT
        !.validated = TRUE,
        !.has_date = Has(response, "current_date"),
        !.date = IF Has(response, "current_date")
                 THEN Get(response, "current_date").i ELSE 0]

\* the cursor advanced before the list is looked at
TryEmptyAdvances(net) ==
    LET response == get_api_answer(timestamp, net)
        homeworks == check_response(response.val)
    IN  /\ ~response.raised
        /\ ~homeworks.raised
        /\ homeworks.val.items = <<>>
        /\ pc' = "finally"
        /\ timestamp' = NextTimestamp(response.val, timestamp)
        /\ cyc' = [Validated(net, response.val) EXCEPT !.empty = TRUE]
        /\ UNCHANGED <<last_status, error, hist>>

\* lines 121-123: the empty list, `continue`
TryEmpty(net) ==
    LET response == get_api_answer(timestamp, net)
        homeworks == check_response(response.val)
    IN  /\ ~response.raised
        /\ ~homeworks.raised
        /\ homeworks.val.items = <<>>
        /\ pc' = "finally"
        /\ cyc' = [Validated(net, response.val) EXCEPT !.empty = TRUE]
        /\ UNCHANGED <<last_status, timestamp, error, hist>>

\* the cycle's record as parse_status is called (line 124)
Examined(net, response, homeworks) ==
    [Validated(net, response) EXCEPT !.record = homeworks.items[1]]

\* line 124 raises
TryParseFails(net) ==
    LET response == get_api_answer(timestamp, net)
        homeworks == check_response(response.val)
        status_home_work == parse_status(homeworks.val.items[1])
    IN  /\ ~response.raised
        /\ ~homeworks.raised
        /\ homeworks.val.items /= <<>>
        /\ status_home_work.raised
        /\ pc' = "except"
        /\ error' = status_home_work.exc
        /\ cyc' = Examined(net, response.val, homeworks.val)
        /\ UNCHANGED <<last_status, timestamp, hist>>

\* hist after parse_status returned `message`
Interpreted(h, message) ==
    [h EXCEPT !.fresh = IF @ = message THEN message ELSE ""]

\* line 128 moved out of the `if`: the cursor advances on an unchanged message
TryUnchangedAdvances(net) ==
    LET response == get_api_answer(timestamp, net)
        homeworks == check_response(response.val)
        status_home_work == parse_status(homeworks.val.items[1])
    IN  /\ ~response.raised
        /\ ~homeworks.raised
        /\ homeworks.val.items /= <<>>
        /\ ~status_home_work.raised
        /\ ~StatusChanged(status_home_work.val, last_status)
        /\ pc' = "finally"
        /\ cyc' = [Examined(net, response.val, homeworks.val) EXCEPT
                      !.interp = status_home_work.val]
        /\ hist' = Interpreted(hist, status_home_work.val)
        /\ timestamp' = NextTimestamp(response.val, timestamp)
        /\ UNCHANGED <<last_status, error>>

\* lines 124-128 with an unchanged message: nothing is done
TryUnchanged(net) ==
    LET response == get_api_answer(timestamp, net)
        homeworks == check_response(response.val)
        status_home_work == parse_status(homeworks.val.items[1])
    IN  /\ ~response.raised
        /\ ~homeworks.raised
        /\ homeworks.val.items /= <<>>
        /\ ~status_home_work.raised
        /\ ~StatusChanged(status_home_work.val, last_status)
        /\ pc' = "finally"
        /\ cyc' = [Examined(net, response.val, homeworks.val) EXCEPT
                      !.interp = status_home_work.val]
        /\ hist' = Interpreted(hist, status_home_work.val)
        /\ UNCHANGED <<last_status, timestamp, error>>

\* a delivery that was not confirmed raised as a failure of the cycle
TrySendRaisesUnconfirmed(net, delivery, watch) ==
    LET response == get_api_answer(timestamp, net)
        homeworks == check_response(response.val)
        status_home_work == parse_status(homeworks.val.items[1])
        sent == send_message(status_home_work.val, delivery)
        record == [Examined(net, response.val, homeworks.val) EXCEPT
                      !.interp = status_home_work.val,
                      !.calls = <<Call(status_home_work.val, ResultOf(sent))>>,
                      !.redelivered = ResultOf(sent) = "true"
                                      /\ hist.fresh = status_home_work.val]
        seen == Interpreted(hist, status_home_work.val)
    IN  /\ ~response.raised
        /\ ~homeworks.raised
        /\ homeworks.val.items /= <<>>
        /\ ~status_home_work.raised
        /\ StatusChanged(status_home_work.val, last_status)
        /\ cyc' = record
        /\ hist' = [Sent(seen, status_home_work.val, sent, watch) EXCEPT
                       !.fresh = IF ResultOf(sent) = "true"
                                 THEN status_home_work.val ELSE @]
        /\ IF sent.raised
           THEN /\ pc' = "except"
                /\ error' = sent.exc
                /\ UNCHANGED <<last_status, timestamp>>
           ELSE IF Confirmed(sent)
           THEN /\ pc' = "finally"
                /\ last_status' = status_home_work.val
                /\ timestamp' = NextTimestamp(response.val, timestamp)
                /\ UNCHANGED error
           ELSE /\ pc' = "except"
                /\ error' = [type |-> "RuntimeError", str |-> "Message not delivered"]
                /\ UNCHANGED <<last_status, timestamp>>

\* lines 124-128 with a changed message: send_message is called
TrySend(net, delivery, watch) ==
    LET response == get_api_answer(timestamp, net)
        homeworks == check_response(response.val)
        status_home_work == parse_status(homeworks.val.items[1])
        sent == send_message(status_home_work.val, delivery)
        record == [Examined(net, response.val, homeworks.val) EXCEPT
                      !.interp = status_home_work.val,
                      !.calls = <<Call(status_home_work.val, ResultOf(sent))>>,
                      !.redelivered = ResultOf(sent) = "true"
                                      /\ hist.fresh = status_home_work.val]
        seen == Interpreted(hist, status_home_work.val)
    IN  /\ ~response.raised
        /\ ~homeworks.raised
        /\ homeworks.val.items /= <<>>
        /\ ~status_home_work.raised
        /\ StatusChanged(status_home_work.val, last_status)
        /\ cyc' = record
        /\ hist' = [Sent(seen, status_home_work.val, sent, watch) EXCEPT
                       !.fresh = IF ResultOf(sent) = "true"
                                 THEN status_home_work.val ELSE @]
        /\ IF sent.raised
           THEN /\ pc' = "except"
                /\ error' = sent.exc
                /\ UNCHANGED <<last_status, timestamp>>
           ELSE IF Confirmed(sent)
           THEN /\ pc' = "finally"
                /\ last_status' = status_home_work.val
                /\ timestamp' = NextTimestamp(response.val, timestamp)
                /\ UNCHANGED error
           ELSE /\ pc' = "finally"
                /\ UNCHANGED <<last_status, timestamp, error>>

\* lines 118-128, against the API behaviours `nets`
TryBlockOn(nets, watches) ==
    /\ pc = "try"
    /\ slept' = 0
    /\ \E net \in nets :
          \/ TryFetchFails(net)
          \/ TryEmpty(net)
          \/ TryParseFails(net)
          \/ TryUnchanged(net)
          \/ \E delivery \in Deliveries, watch \in watches :
                TrySend(net, delivery, watch)
    /\ UNCHANGED <<probe, stuck, PRACTICUM_TOKEN, TELEGRAM_TOKEN, TELEGRAM_CHAT_ID, propagating, prev>>

TryBlock == TryBlockOn(LoopNetResults, {FALSE})

\* lines 129-133
ExceptBlockOn(watches) ==
    /\ pc = "except"
    /\ LET message == FailureText(error)
       IN  IF ~FailureChanged(last_status, message)
           THEN /\ cyc' = [cyc EXCEPT !.diagnostic = message]
                /\ UNCHANGED <<last_status, propagating, error, hist>>
           ELSE \E delivery \in Deliveries, watch \in watches :
                  LET sent == send_message(message, delivery)
                  IN  /\ cyc' = [cyc EXCEPT
                                    !.diagnostic = message,
                                    !.calls = Append(@, Call(message, ResultOf(sent)))]
                      /\ hist' = Sent(hist, message, sent, watch)
                      /\ IF sent.raised
                         THEN /\ propagating' = TRUE
                              /\ error' = sent.exc
                              /\ UNCHANGED last_status
                         ELSE IF Confirmed(sent)
                         THEN /\ last_status' = message
                              /\ UNCHANGED <<propagating, error>>
                         ELSE UNCHANGED <<last_status, propagating, error>>
    /\ pc' = "finally"
    /\ UNCHANGED <<probe, stuck, PRACTICUM_TOKEN, TELEGRAM_TOKEN, TELEGRAM_CHAT_ID, timestamp, prev,
                   slept>>

ExceptBlock == ExceptBlockOn({FALSE})

\* the sleep at the end of the try block instead of in `finally`: the
\* `continue` of the empty list and a caught failure skip it
FinallyBlockSleepInTry ==
    /\ pc = "finally"
    /\ slept' = IF cyc.empty \/ cyc.diagnostic /= "" THEN slept ELSE slept + RETRY_PERIOD
    /\ pc' = IF propagating THEN "exited" ELSE "try"
    /\ prev' = Summary(cyc)
    /\ cyc' = NoCycle
    /\ UNCHANGED <<probe, stuck, PRACTICUM_TOKEN, TELEGRAM_TOKEN, TELEGRAM_CHAT_ID, last_status,
                   timestamp, error, propagating, hist>>

\* lines 134-135: the sleep, then the next cycle unless an exception is
\* on its way out of main()
FinallyBlock ==
    /\ pc = "finally"
    /\ slept' = slept + RETRY_PERIOD
    /\ pc' = IF propagating THEN "exited" ELSE "try"
    /\ prev' = Summary(cyc)
    /\ cyc' = NoCycle
    /\ UNCHANGED <<probe, stuck, PRACTICUM_TOKEN, TELEGRAM_TOKEN, TELEGRAM_CHAT_ID, last_status,
                   timestamp, error, propagating, hist>>

Next == Startup \/ TryBlock \/ ExceptBlock \/ FinallyBlock

Spec == Init /\ [][Next]_vars

----------------------------------------------------------------------------
(* The loop against an API that reports two verdicts of one work, with the  *)
(* history of undelivered messages kept (hist.watched)                      *)

TryBlockWatching == TryBlockOn(RetryNetResults, BOOLEAN)

ExceptBlockWatching == ExceptBlockOn(BOOLEAN)

NextRetry == Startup \/ TryBlockWatching \/ ExceptBlockWatching \/ FinallyBlock

\* the credentials are set: the runs of interest are those of the loop
InitRetry ==
    /\ Init
    /\ PRACTICUM_TOKEN = "secret"
    /\ TELEGRAM_TOKEN = "secret"
    /\ TELEGRAM_CHAT_ID = "secret"

SpecRetry == InitRetry /\ [][NextRetry]_vars

----------------------------------------------------------------------------
(* The loop against an API that gives the same valid, non-empty answer to   *)
(* every request, with a delivery channel that does not fail forever        *)

\* the answers such an API may be stuck at
StableNetResults ==
    {n \in NetResultsOf(BodiesOf({JList(l) : l \in ListsOf(RetryRecords)})) :
        n.json /\ Get(n.body, "homeworks").items /= <<>>}

InitStable ==
    /\ InitMain
    /\ PRACTICUM_TOKEN = "secret"
    /\ TELEGRAM_TOKEN = "secret"
    /\ TELEGRAM_CHAT_ID = "secret"
    /\ stuck \in StableNetResults

TryBlockStable == TryBlockOn({stuck}, {FALSE})

\* a step of the try block in which send_message returned true
TryDelivers ==
    /\ TryBlockStable
    /\ cyc'.calls /= <<>>
    /\ cyc'.calls[1].result = "true"

\* a step of the except block in which send_message returned true
ExceptDelivers ==
    /\ ExceptBlock
    /\ Len(cyc'.calls) > Len(cyc.calls)
    /\ cyc'.calls[Len(cyc'.calls)].result = "true"

NextStable == Startup \/ TryBlockStable \/ ExceptBlock \/ FinallyBlock

\* the process keeps running, and a delivery that is attempted again and
\* again succeeds at some attempt
SpecStable ==
    /\ InitStable
    /\ [][NextStable]_vars
    /\ WF_vars(NextStable)
    /\ SF_vars(TryDelivers)
    /\ SF_vars(ExceptDelivers)

----------------------------------------------------------------------------
(* The functions of homework.py called on their own, each on every input   *)
(* of its bounded set                                                      *)

MainVars == <<PRACTICUM_TOKEN, TELEGRAM_TOKEN, TELEGRAM_CHAT_ID, pc, last_status,
              timestamp, error, propagating, cyc, prev, slept, hist, stuck>>

CallGetApiAnswer ==
    /\ \E ts \in Dates, net \in NetResults :
          probe' = [NoProbe EXCEPT !.fn = "get_api_answer", !.ts = ts, !.net = net,
                                   !.out = get_api_answer(ts, net)]
    /\ UNCHANGED MainVars

CallCheckResponse ==
    /\ \E raw \in Bodies :
          probe' = [NoProbe EXCEPT !.fn = "check_response", !.arg = raw,
                                   !.out = check_response(raw)]
    /\ UNCHANGED MainVars

\* the sentence parse_status returns is kept as a Python str
CallParseStatus ==
    /\ \E homework \in NewestRecords :
          LET sentence == parse_status(homework)
          IN  probe' = [NoProbe EXCEPT
                           !.fn = "parse_status", !.arg = homework,
                           !.out = IF sentence.raised THEN sentence
                                   ELSE Return(JStr(sentence.val))]
    /\ UNCHANGED MainVars

NextPure == CallGetApiAnswer \/ CallCheckResponse \/ CallParseStatus

SpecPure == InitRetry /\ [][NextPure]_vars

----------------------------------------------------------------------------
(* Properties.  A cycle is complete, sleep aside, when pc = "finally": cyc  *)
(* then holds all it did and prev the cycle before it.                      *)

Results(c) == {c.calls[i].result : i \in 1..Len(c.calls)}

Texts(c) == {c.calls[i].text : i \in 1..Len(c.calls)}

\* the cycle at hand and the one before it interpreted the same message
SameMessageTwice ==
    /\ pc = "finally"
    /\ prev.cycles = 1
    /\ cyc.interp /= ""
    /\ cyc.interp = prev.interp

\* C1 as stated: two consecutive cycles with the same interpreted message
\* call send_message at most once between them, whatever the delivery
\* outcomes of the first
C1_AtMostOneSendOverTwoCycles ==
    SameMessageTwice => prev.sends + Len(cyc.calls) <= 1

\* C1 amended: two consecutive cycles with the same interpreted message call
\* send_message at most once between them when every call of send_message in
\* the first cycle returned true (or none was made)
C1_AtMostOneSendAfterConfirmedCycle ==
    (SameMessageTwice /\ ~prev.unconfirmed) => prev.sends + Len(cyc.calls) <= 1

\* the first cycle delivered the message, the second one was silent
C1_Witness ==
    /\ SameMessageTwice
    /\ ~prev.unconfirmed
    /\ prev.sends = 1
    /\ cyc.calls = <<>>

\* C2: between two confirmed deliveries of the same verdict message there is
\* a cycle that interpreted another message
C2_VerdictDeliveredOncePerTransition == ~cyc.redelivered

\* the cursor the response of the cycle asks for
CursorOfResponse == IF cyc.has_date THEN cyc.date ELSE cyc.from_date

\* the cycle delivered its verdict message and send_message returned true
VerdictConfirmed ==
    /\ cyc.interp /= ""
    /\ cyc.calls /= <<>>
    /\ cyc.calls[1] = Call(cyc.interp, "true")

\* C3 as stated: after every cycle whose response was fetched and validated
\* the cursor is current_date of the response, or unchanged if it has none
C3_CursorFollowsEveryValidResponse ==
    (pc = "finally" /\ cyc.validated) => timestamp = CursorOfResponse

\* C3 amended: after every cycle that delivered its verdict message with
\* confirmation the cursor is current_date of the response, or unchanged if
\* it has none
C3_CursorFollowsConfirmedVerdict ==
    (pc = "finally" /\ VerdictConfirmed) => timestamp = CursorOfResponse

\* a confirmed delivery moved the cursor to a new current_date
C3_Witness ==
    /\ pc = "finally"
    /\ VerdictConfirmed
    /\ cyc.has_date
    /\ cyc.date /= cyc.from_date
    /\ timestamp = cyc.date

\* C4: once check_tokens() has passed, main() is never left
C4_LoopNeverExits == pc = "exited" => prev.cycles = 0

\* C5: no call of send_message ends with an exception
C5_SendMessageNeverRaises == "raised" \notin Results(cyc)

C7_LastStatusIsLastConfirmed ==
    /\ last_status = hist.confirmed
    /\ (pc = "finally" /\ "true" \notin Results(cyc)) => last_status = cyc.start_status

\* a failed delivery left a non-empty last_status in place
C7_Witness ==
    /\ pc = "finally"
    /\ last_status /= ""
    /\ Results(cyc) = {"false"}
    /\ last_status = cyc.start_status

\* the messages the cycle had to send or suppress
Candidates == {cyc.interp, cyc.diagnostic} \ {""}

\* C8: a cycle in which send_message returned false leaves last_status and
\* the cursor as they were, and every later cycle whose candidate is a
\* message not delivered so far calls send_message with it
C8_UndeliveredIsRetried ==
    pc = "finally" =>
        /\ "false" \in Results(cyc) =>
              /\ last_status = cyc.start_status
              /\ timestamp = cyc.from_date
        /\ (cyc.start_watched /= "" /\ cyc.start_watched \in Candidates) =>
              cyc.start_watched \in Texts(cyc)

\* a verdict that was not delivered is sent again after a cycle that
\* interpreted nothing
C8_Witness ==
    /\ pc = "finally"
    /\ cyc.start_watched /= ""
    /\ cyc.interp = cyc.start_watched
    /\ prev.interp = ""
    /\ cyc.calls = <<Call(cyc.interp, "false")>>

\* C9: one sleep of the fixed period lies between two calls of
\* get_api_answer, and after the last one, on every path through the cycle
C9_OneSleepPerCycle ==
    /\ pc \in {"except", "finally"} => slept = 0
    /\ (pc \in {"try", "exited"} /\ prev.cycles = 1) => slept = RETRY_PERIOD

\* the `continue` of the empty list slept as well
C9_Witness ==
    /\ pc = "try"
    /\ prev.cycles = 1
    /\ prev.empty
    /\ slept = RETRY_PERIOD

Unset(token) == token = None \/ token = ""

AnyUnset == Unset(PRACTICUM_TOKEN) \/ Unset(TELEGRAM_TOKEN) \/ Unset(TELEGRAM_CHAT_ID)

\* C10: with a credential missing or empty main() ends with the fatal error
\* and calls neither get_api_answer nor send_message; with all three set
\* check_tokens() does not fail
C10_MissingCredentialStopsStartup ==
    /\ AnyUnset =>
          /\ pc \in {"main", "exited"}
          /\ pc = "exited" => error.type = "AssertionError"
          /\ cyc = NoCycle
          /\ prev = Summary(NoCycle)
    /\ ~AnyUnset => error.type /= "AssertionError"

\* one empty credential ended main() before the loop
C10_Witness ==
    /\ pc = "exited"
    /\ PRACTICUM_TOKEN = "secret"
    /\ TELEGRAM_TOKEN = "secret"
    /\ TELEGRAM_CHAT_ID = ""
    /\ error.type = "AssertionError"

\* C11: a cycle whose validated list is empty calls send_message not at all,
\* leaves last_status and the cursor as they were, raises nothing and goes
\* straight to the sleep
C11_EmptyListIsSilent ==
    [][(pc = "finally" /\ cyc.empty) =>
          /\ cyc.validated
          /\ cyc.calls = <<>>
          /\ cyc.diagnostic = ""
          /\ ~propagating
          /\ last_status = cyc.start_status
          /\ timestamp = cyc.from_date
          /\ slept' = RETRY_PERIOD
          /\ pc' = "try"
          /\ last_status' = last_status
          /\ timestamp' = timestamp]_vars

\* an empty list came with a current_date other than the cursor, after a
\* message had been delivered
C11_Witness ==
    /\ pc = "finally"
    /\ cyc.empty
    /\ cyc.has_date
    /\ cyc.date /= cyc.from_date
    /\ last_status /= ""

\* the record {homework_name: "X", status: "approved"}
XApproved ==
    JDict(<<Entry("homework_name", JStr("X")), Entry("status", JStr("approved"))>>)

\* the sentence of line 108 for work "X" with the verdict of line 24
XApprovedSentence ==
    "Homework check status changed \"X\". Work checked: the reviewer liked everything. Hooray!"

\* C12: a first cycle whose newest record is X/approved calls send_message
\* with the approved sentence for "X"; once that delivery is confirmed, a
\* second cycle with the same record calls send_message not at all
C12_ApprovedRoundTrip ==
    pc = "finally" =>
        /\ (cyc.first /\ cyc.record = XApproved) =>
              /\ cyc.interp = XApprovedSentence
              /\ cyc.calls /= <<>>
              /\ cyc.calls[1].text = XApprovedSentence
        /\ (prev.first /\ prev.record = XApproved /\ ~prev.unconfirmed
               /\ cyc.record = XApproved) =>
              cyc.calls = <<>>

\* the second cycle saw the record the first one delivered and was silent
C12_Witness ==
    /\ pc = "finally"
    /\ prev.first
    /\ prev.record = XApproved
    /\ prev.sends = 1
    /\ ~prev.unconfirmed
    /\ cyc.record = XApproved
    /\ cyc.calls = <<>>
    /\ last_status = XApprovedSentence

\* C13: a status code other than 200 makes get_api_answer fail with
\* InvalidResponseCode and with no other kind of error
C13_BadStatusRaisesInvalidResponseCode ==
    (pc = "except" /\ cyc.fetch = "bad_status") => error.type = "InvalidResponseCode"

\* C14: the line get_api_answer logs for the request does not hold the API
\* token
C14_RequestLogOmitsToken ==
    \A i \in 1..Len(cyc.log) : cyc.log[i] /= PRACTICUM_TOKEN

\* C15: check_response fails for a root that is no dict, for a dict
\* without "homeworks" and for a "homeworks" that is no list; for every
\* other response it returns the list as it is, whatever its elements
C15_CheckResponseShape ==
    probe.fn = "check_response" =>
        IF \/ probe.arg.t /= "dict"
           \/ ~Has(probe.arg, "homeworks")
           \/ Get(probe.arg, "homeworks").t /= "list"
        THEN probe.out.raised
        ELSE /\ ~probe.out.raised
             /\ probe.out.val = Get(probe.arg, "homeworks")

\* a list whose only element is no record was returned as it is
C15_Witness ==
    /\ probe.fn = "check_response"
    /\ ~probe.out.raised
    /\ probe.out.val = JList(<<JInt(7)>>)

\* the verdict text of lines 24-26 for a status
VerdictLiteral(status) ==
    CASE status = "approved" -> "Work checked: the reviewer liked everything. Hooray!"
      [] status = "reviewing" -> "Work was taken for review by the reviewer."
      [] status = "rejected" -> "Work checked: the reviewer has remarks."

\* C16: parse_status fails with the KeyError naming the missing field when
\* homework_name or status is absent, with HomeworkVerdictNotFound for a
\* status outside approved, reviewing, rejected, and otherwise returns the
\* sentence of the name and of the verdict text of the status
C16_ParseStatusCases ==
    probe.fn = "parse_status" =>
        IF ~Has(probe.arg, "homework_name")
        THEN /\ probe.out.raised
             /\ probe.out.exc.type = "KeyError"
             /\ probe.out.exc.str = "\"API response has no value 'homework_name'\""
        ELSE IF ~Has(probe.arg, "status")
        THEN /\ probe.out.raised
             /\ probe.out.exc.type = "KeyError"
             /\ probe.out.exc.str = "\"API response has no value 'status'\""
        ELSE IF Get(probe.arg, "status").s \notin {"approved", "reviewing", "rejected"}
        THEN /\ probe.out.raised
             /\ probe.out.exc.type = "HomeworkVerdictNotFound"
        ELSE /\ ~probe.out.raised
             /\ probe.out.val =
                   JStr("Homework check status changed \""
                        \o Get(probe.arg, "homework_name").s \o "\". "
                        \o VerdictLiteral(Get(probe.arg, "status").s))

\* a record of work "Y" under review gave its sentence
C16_Witness ==
    /\ probe.fn = "parse_status"
    /\ probe.arg = JDict(<<Entry("homework_name", JStr("Y")),
                           Entry("status", JStr("reviewing"))>>)
    /\ ~probe.out.raised
    /\ probe.out.val.s =
          "Homework check status changed \"Y\". Work was taken for review by the reviewer."

\* the cycle failed in get_api_answer, check_response or parse_status
FailedBeforeSend(c) == c.diagnostic /= "" /\ c.interp = ""

\* C17: a failure of get_api_answer, check_response or parse_status gives
\* one diagnostic message; send_message is called with it only if it
\* differs from last_status, and last_status becomes it only if the
\* delivery is confirmed; of two consecutive cycles failing with the same
\* diagnostic, the first delivered with confirmation, the second calls
\* send_message not at all
C17_DiagnosticIsDeduplicated ==
    pc = "finally" =>
        /\ (cyc.interp = "" /\ ~cyc.empty) => cyc.diagnostic /= ""
        /\ FailedBeforeSend(cyc) =>
              /\ Len(cyc.calls) <= 1
              /\ Texts(cyc) \subseteq {cyc.diagnostic}
              /\ cyc.calls /= <<>> <=> cyc.diagnostic /= cyc.start_status
              /\ last_status = IF "true" \in Results(cyc)
                               THEN cyc.diagnostic ELSE cyc.start_status
        /\ (FailedBeforeSend(cyc) /\ prev.diagnostic = cyc.diagnostic
               /\ prev.interp = "" /\ prev.sends = 1 /\ ~prev.unconfirmed) =>
              cyc.calls = <<>>

\* a malformed answer was reported once and not again in the next cycle
C17_Witness ==
    /\ pc = "finally"
    /\ FailedBeforeSend(cyc)
    /\ cyc.fetch = "ok"
    /\ prev.diagnostic = cyc.diagnostic
    /\ prev.interp = ""
    /\ prev.sends = 1
    /\ ~prev.unconfirmed
    /\ cyc.calls = <<>>

\* C18: the cursor changes only in a cycle that delivered its verdict
\* message with confirmation, and last_status changes with it to that
\* message
C18_CursorMovesOnlyWithConfirmedVerdict ==
    pc = "finally" =>
        /\ ~VerdictConfirmed => timestamp = cyc.from_date
        /\ timestamp /= cyc.from_date =>
              /\ last_status = cyc.interp
              /\ last_status /= cyc.start_status

\* the cursor moved as one delivered message replaced another
C18_Witness ==
    /\ pc = "finally"
    /\ timestamp /= cyc.from_date
    /\ cyc.start_status /= ""
    /\ last_status = cyc.interp

\* C19: a cycle in which send_message did not raise called get_api_answer
\* once and send_message at most once
C19_AtMostOneSendPerCycle ==
    (pc = "finally" /\ "raised" \notin Results(cyc)) =>
        /\ cyc.fetches = 1
        /\ Len(cyc.calls) <= 1

\* a record that could not be interpreted gave one diagnostic message and
\* nothing else
C19_Witness ==
    /\ pc = "finally"
    /\ cyc.record /= NoValue
    /\ cyc.interp = ""
    /\ cyc.calls = <<Call(cyc.diagnostic, "false")>>

\* the sentence of the newest record of the answer the API is stuck at
StableSentence ==
    LET newest == Get(stuck.body, "homeworks").items[1]
    IN  VerdictLiteral(Get(newest, "status").s)

\* C20: with the API stuck at one valid answer and a delivery channel that
\* does not fail forever, last_status is eventually the sentence of the
\* newest record for good, and from then on send_message is not called
C20_StableAnswerIsDeliveredOnce ==
    <>[](/\ last_status = "Homework check status changed \"X\". " \o StableSentence
         /\ cyc.calls = <<>>)

====
